---- MODULE Spec2Model ----
(***************************************************************************)
(* Model of arxiv_trend_analyzer.py: the literature query adapter          *)
(* (search_arxiv_papers), the keyword classifier (filter_agent_papers),    *)
(* the tool dispatcher (process_tool_call), the conversation loop          *)
(* (run_analysis) with its progress-printing threads, and main.            *)
(*                                                                         *)
(* Text is a sequence of one-character strings.  The two Japanese markers  *)
(* of the report are written with ASCII stand-ins: NEN for U+5E74,        *)
(* RON, BUN for U+8AD6 U+6587 and BQ for the backtick.                    *)
(***************************************************************************)
EXTENDS Integers, Sequences, FiniteSets, TLC

VARIABLES
    pc,               \* position of the main thread
    apiKey,           \* os.getenv("ANTHROPIC_API_KEY") is set
    messages,         \* the transcript
    turn_count,       \* number of loop iterations started
    markdown_result,  \* the captured candidate report
    response,         \* the response of the current iteration
    blockIdx,         \* index of the for loop at line 336
    tool_results,     \* the list built at lines 334-346
    fnStop,           \* fnStop[n]: function object of iteration n has attribute stop
    threads,          \* threads[n]: state of the thread started in iteration n
    lastRequest,      \* the transcript carried by the most recent request
    requestCount,     \* number of requests sent to the AI service
    outcome,          \* how the loop ended
    dispatched,       \* the blocks passed to process_tool_call, this response
    lastCall,         \* the most recent process_tool_call
    seenTexts,        \* the text of every text block inspected so far, in order
    searchCalls,      \* calls of search_arxiv_papers
    pauses,           \* executions of time.sleep(1) in search_arxiv_papers
    result,           \* return value of run_analysis
    output,           \* content of output.md
    exitStatus,       \* exit status of the process
    resolved,         \* number of requests that returned or raised
    fa_in,            \* arguments of a direct call of filter_agent_papers
    fa_out            \* its return value

vars == <<pc, apiKey, messages, turn_count, markdown_result, response, blockIdx,
          tool_results, fnStop, threads, lastRequest, requestCount, outcome,
          dispatched, lastCall, seenTexts, searchCalls, pauses, result, output,
          exitStatus, resolved, fa_in, fa_out>>

filterVars == <<fa_in, fa_out>>

-----------------------------------------------------------------------------
(* Bounds *)

\* iterations of the while loop the model follows
MaxTurns == 2
\* records the literature provider returns at most
MaxPapers == 1

-----------------------------------------------------------------------------
(* Text *)

NEN == "Y"
RON == "R"
BUN == "B"
BQ == "^"

Whitespace == {" ", "\n", "\t"}

\* str.__contains__: sub occurs in s as a contiguous run
Contains(s, sub) ==
    \E i \in 0..(Len(s) - Len(sub)) : SubSeq(s, i + 1, i + Len(sub)) = sub

RECURSIVE LStrip(_)
LStrip(s) ==
    IF s = <<>> THEN <<>>
    ELSE IF Head(s) \in Whitespace THEN LStrip(Tail(s)) ELSE s

RECURSIVE RStrip(_)
RStrip(s) ==
    IF s = <<>> THEN <<>>
    ELSE IF s[Len(s)] \in Whitespace THEN RStrip(SubSeq(s, 1, Len(s) - 1)) ELSE s

\* str.strip()
Strip(s) == RStrip(LStrip(s))

LowerChar(c) ==
    CASE c = "A" -> "a" [] c = "G" -> "g" [] c = "E" -> "e"
      [] c = "N" -> "n" [] c = "T" -> "t" [] OTHER -> c

\* str.lower()
Lower(s) == [i \in 1..Len(s) |-> LowerChar(s[i])]

-----------------------------------------------------------------------------
(* Keyword classifier and literature query adapter *)

PyNone == -1

DefaultMaxResults == 200

\* dict.get(key, default) on a dict kept as a set of <<key, value>> pairs
Get(d, k, default) ==
    IF \E p \in d : p[1] = k THEN (CHOOSE p \in d : p[1] = k)[2] ELSE default

agent_keywords ==
    << <<"a","g","e","n","t">>,
       <<"m","u","l","t","i","-","a","g","e","n","t">>,
       <<"a","g","e","n","t","i","c">>,
       <<"p","l","a","n","n","i","n","g">>,
       <<"r","e","a","s","o","n","i","n","g">>,
       <<"t","o","o","l"," ","c","a","l","l","i","n","g">>,
       <<"t","o","o","l"," ","u","s","e">> >>

PaperMatches(paper) ==
    LET text == Lower(paper.title) \o <<" ">> \o Lower(paper.abstract)
    IN  \E k \in 1..Len(agent_keywords) : Contains(text, agent_keywords[k])

\* mutant: a record is counted once for every keyword it matches
RECURSIVE CountAgent_PerKeyword(_)
CountAgent_PerKeyword(papers) ==
    IF papers = <<>> THEN 0
    ELSE LET text == Lower(Head(papers).title) \o <<" ">> \o Lower(Head(papers).abstract)
         IN  Cardinality({k \in 1..Len(agent_keywords) : Contains(text, agent_keywords[k])})
             + CountAgent_PerKeyword(Tail(papers))

RECURSIVE CountAgent(_)
CountAgent(papers) ==
    IF papers = <<>> THEN 0
    ELSE (IF PaperMatches(Head(papers)) THEN 1 ELSE 0) + CountAgent(Tail(papers))

filter_agent_papers(papers, year) ==
    [year |-> year, total_papers |-> Len(papers), agent_papers |-> CountAgent(papers)]

\* the records the provider can return
PaperPool ==
    { [title |-> <<"A","G","E","N","T","s">>, abstract |-> <<"x">>],
      [title |-> <<"g","r","a","p","h">>, abstract |-> <<"s","a","t">>] }

RECURSIVE SeqsUpTo(_, _)
SeqsUpTo(S, n) ==
    IF n = 0 THEN {<<>>}
    ELSE LET shorter == SeqsUpTo(S, n - 1)
         IN  shorter \cup {Append(s, x) : s \in {t \in shorter : Len(t) = n - 1}, x \in S}

\* what the provider call does: it raises, or yields a sequence of records
ProviderOutcomes ==
    {[ok |-> FALSE, hits |-> <<>>]} \cup
    {[ok |-> TRUE, hits |-> h] : h \in SeqsUpTo(PaperPool, MaxPapers)}

\* list[:n] for n >= 0
Take(s, n) == SubSeq(s, 1, IF n < Len(s) THEN n ELSE Len(s))

\* mutant: the provider's exception leaves search_arxiv_papers
search_arxiv_papers_Propagates(year, max_results, prov) ==
    IF prov.ok
    THEN [papers |-> Take(prov.hits, max_results), slept |-> 1, raised |-> FALSE]
    ELSE [papers |-> <<>>, slept |-> 0, raised |-> TRUE]

\* search_arxiv_papers: the returned list and the number of sleeps performed
search_arxiv_papers(year, max_results, prov) ==
    IF prov.ok
    THEN [papers |-> Take(prov.hits, max_results), slept |-> 1, raised |-> FALSE]
    ELSE [papers |-> <<>>, slept |-> 0, raised |-> FALSE]

\* json.dumps of the summary dict: the keys in insertion order with their values
JsonDumps(d) ==
    << <<"year", d.year>>, <<"total_papers", d.total_papers>>,
       <<"agent_papers", d.agent_papers>> >>

SearchTool == "search_and_filter_papers"

\* a tool input that is no dict: tool_input.get raises AttributeError
NotADict == {<<"__class__", 0>>}

\* mutant: an unknown tool name raises instead of returning the sentinel
process_tool_call_UnknownRaises(tool_name, tool_input, prov) ==
    IF tool_name = SearchTool /\ tool_input = NotADict
    THEN [text |-> <<>>, searched |-> 0, slept |-> 0, papers |-> <<>>, raised |-> TRUE]
    ELSE IF tool_name = SearchTool
    THEN LET year == Get(tool_input, "year", PyNone)
             max_results == Get(tool_input, "max_results", DefaultMaxResults)
             s == search_arxiv_papers(year, max_results, prov)
         IN  [text |-> JsonDumps(filter_agent_papers(s.papers, year)),
              searched |-> 1, slept |-> s.slept, papers |-> s.papers,
              raised |-> s.raised]
    ELSE [text |-> <<>>, searched |-> 0, slept |-> 0, papers |-> <<>>, raised |-> TRUE]

\* process_tool_call: the text returned, and what the search did
process_tool_call(tool_name, tool_input, prov) ==
    IF tool_name = SearchTool /\ tool_input = NotADict
    THEN [text |-> <<>>, searched |-> 0, slept |-> 0, papers |-> <<>>, raised |-> TRUE]
    ELSE IF tool_name = SearchTool
    THEN LET year == Get(tool_input, "year", PyNone)
             max_results == Get(tool_input, "max_results", DefaultMaxResults)
             s == search_arxiv_papers(year, max_results, prov)
         IN  [text |-> JsonDumps(filter_agent_papers(s.papers, year)),
              searched |-> 1, slept |-> s.slept, papers |-> s.papers,
              raised |-> s.raised]
    ELSE [text |-> <<"Unknown tool: ", tool_name>>,
          searched |-> 0, slept |-> 0, papers |-> <<>>, raised |-> FALSE]

-----------------------------------------------------------------------------
(* Content blocks and responses of the AI service *)

Fence == <<BQ, BQ, BQ>>
YearMarker == <<NEN>>
PaperMarker == <<RON, BUN>>

\* the condition at line 279
Qualifies(text) ==
    Contains(text, Fence) /\ (Contains(text, YearMarker) /\ Contains(text, PaperMarker))

TxtQ1 == <<" ", BQ, BQ, BQ, "1", NEN, RON, BUN, "\n">>
TxtQ2 == <<BQ, BQ, BQ, "2", NEN, RON, BUN>>
TxtN1 == <<BQ, BQ, NEN, RON, BUN>>
TxtN2 == <<" ", BQ, BQ, BQ, RON, NEN, BUN>>

TextBlock(t) == [type |-> "text", text |-> t, name |-> "", input |-> {}, id |-> 0]
ToolUse(n, in) == [type |-> "tool_use", text |-> <<>>, name |-> n, input |-> in, id |-> 0]
ServerToolUse ==
    [type |-> "server_tool_use", text |-> <<>>, name |-> "bash_code_execution",
     input |-> {}, id |-> 0]
ServerToolResult ==
    [type |-> "bash_code_execution_tool_result", text |-> <<>>, name |-> "",
     input |-> {}, id |-> 0]

Search2020 == ToolUse(SearchTool, {<<"year", 2020>>})
Search2021 == ToolUse(SearchTool, {<<"year", 2021>>, <<"max_results", 1>>})
Bogus == ToolUse("bogus_tool", {})
SearchBadInput == ToolUse(SearchTool, NotADict)

Resp(k, sr, c) == [kind |-> k, stop_reason |-> sr, content |-> c]

NoResponse == Resp("none", "", <<>>)

\* what client.beta.messages.create can return
Responses ==
    { Resp("ok", "tool_use", <<Search2021, ServerToolUse, Bogus>>),
      Resp("ok", "tool_use", <<ServerToolUse, ServerToolResult>>),
      Resp("ok", "tool_use", <<TextBlock(TxtQ1), Search2020>>),
      Resp("ok", "tool_use", <<Search2020, SearchBadInput>>),
      Resp("ok", "end_turn", <<TextBlock(TxtQ1)>>),
      Resp("ok", "end_turn", <<TextBlock(TxtQ2), TextBlock(TxtN2)>>),
      Resp("ok", "end_turn", <<TextBlock(TxtN1), Search2020>>),
      Resp("ok", "max_tokens", <<TextBlock(TxtQ2), Search2020>>),
      Resp("empty", "", <<>>),
      Resp("nostop", "", <<>>),
      Resp("nomodel", "end_turn", <<TextBlock(TxtQ2)>>) }

\* the service gives every block of a response its own id
StampIds(c, turn) == [i \in 1..Len(c) |-> [c[i] EXCEPT !.id = turn * 10 + i]]

\* mutant: the first qualifying block is kept, later ones are ignored
RECURSIVE InspectBlocks_KeepFirst(_, _)
InspectBlocks_KeepFirst(content, md) ==
    IF content = <<>> THEN md
    ELSE LET block == Head(content)
         IN  InspectBlocks_KeepFirst(Tail(content),
                 IF block.type = "text" /\ Qualifies(block.text) /\ md = <<>>
                 THEN block.text ELSE md)

\* lines 274-280: the candidate report after the blocks of one response
RECURSIVE InspectBlocks(_, _)
InspectBlocks(content, md) ==
    IF content = <<>> THEN md
    ELSE LET block == Head(content)
         IN  InspectBlocks(Tail(content),
                 IF block.type = "text" /\ Qualifies(block.text) THEN block.text ELSE md)

\* the texts of the text blocks of a response, in block order
RECURSIVE TextsOf(_)
TextsOf(content) ==
    IF content = <<>> THEN <<>>
    ELSE (IF Head(content).type = "text" THEN <<Head(content).text>> ELSE <<>>)
         \o TextsOf(Tail(content))

\* mutant: server_tool_use blocks are dispatched like tool_use blocks
IsLocalToolUse_AnyToolUse(block) == block.type \in {"tool_use", "server_tool_use"}

\* line 339
IsLocalToolUse(block) == block.type = "tool_use"

\* mutant: the result carries the position of the block, not its id
ToolResult_PositionAsId(block, text) ==
    [type |-> "tool_result", tool_use_id |-> block.id % 10, content |-> text]

\* lines 342-346
ToolResult(block, text) ==
    [type |-> "tool_result", tool_use_id |-> block.id, content |-> text]

\* mutant: the break on end_turn is missing
AfterInspection_NoBreak(stop_reason) ==
    IF stop_reason = "tool_use" THEN "tools" ELSE "continue"

\* lines 328-332: what the loop does after inspecting a response
AfterInspection(stop_reason) ==
    IF stop_reason = "end_turn" THEN "break"
    ELSE IF stop_reason = "tool_use" THEN "tools"
    ELSE "continue"

Fallback == <<"# Analysis completed but no markdown result found">>

\* mutant: the fallback for an empty candidate is missing
ReturnValue_NoFallback(md) == Strip(md)

\* line 368
ReturnValue(md) == IF md /= <<>> THEN Strip(md) ELSE Fallback

InitialPrompt == <<"initial_prompt">>

NoCall ==
    [id |-> 0, name |-> "", input |-> {}, provOk |-> TRUE, found |-> 0,
     text |-> <<>>, searched |-> 0, slept |-> 0, raised |-> FALSE]

NoOutput == [written |-> FALSE, text |-> <<>>]

NoFilterCall == [papers |-> <<>>, year |-> PyNone]

NoSummary == [year |-> PyNone, total_papers |-> 0, agent_papers |-> 0]

-----------------------------------------------------------------------------
(* State machine *)

Init ==
    /\ pc = "main"
    /\ apiKey \in BOOLEAN
    /\ messages = <<>>
    /\ turn_count = 0
    /\ markdown_result = <<>>
    /\ response = NoResponse
    /\ blockIdx = 0
    /\ tool_results = <<>>
    /\ fnStop = <<>>
    /\ threads = <<>>
    /\ lastRequest = <<>>
    /\ requestCount = 0
    /\ outcome = "none"
    /\ dispatched = <<>>
    /\ lastCall = NoCall
    /\ seenTexts = <<>>
    /\ searchCalls = 0
    /\ pauses = 0
    /\ result = <<>>
    /\ output = NoOutput
    /\ exitStatus = "running"
    /\ resolved = 0
    /\ fa_in = NoFilterCall
    /\ fa_out = NoSummary

\* mutant: the credential check is missing
StartAnalysis_NoCredentialCheck ==
    /\ pc = "main"
    /\ messages' = <<[role |-> "user", content |-> InitialPrompt]>>
    /\ pc' = "Sending"
    /\ UNCHANGED <<resolved, fa_in, fa_out>>
    /\ UNCHANGED <<apiKey, turn_count, markdown_result, response, blockIdx,
                   tool_results, fnStop, threads, lastRequest, requestCount,
                   outcome, dispatched, lastCall, seenTexts, searchCalls, pauses, result,
                   output, exitStatus>>

\* main calls run_analysis; lines 117-194
StartAnalysis ==
    /\ pc = "main"
    /\ IF apiKey
       THEN /\ messages' = <<[role |-> "user", content |-> InitialPrompt]>>
            /\ pc' = "Sending"
            /\ UNCHANGED exitStatus
       ELSE /\ pc' = "Exited"
            /\ exitStatus' = "nonzero"
            /\ UNCHANGED messages
    /\ UNCHANGED <<resolved, fa_in, fa_out>>
    /\ UNCHANGED <<apiKey, turn_count, markdown_result, response, blockIdx,
                   tool_results, fnStop, threads, lastRequest, requestCount,
                   outcome, dispatched, lastCall, seenTexts, searchCalls, pauses, result, output>>

\* lines 196-237: a new iteration defines progress_indicator, starts its
\* thread and issues the request
SendRequest ==
    /\ pc = "Sending"
    /\ turn_count < MaxTurns
    /\ turn_count' = turn_count + 1
    /\ fnStop' = Append(fnStop, FALSE)
    /\ threads' = Append(threads, "check")
    /\ lastRequest' = messages
    /\ requestCount' = requestCount + 1
    /\ pc' = "AwaitingResponse"
    /\ UNCHANGED <<resolved, fa_in, fa_out>>
    /\ UNCHANGED <<apiKey, messages, markdown_result, response, blockIdx,
                   tool_results, outcome, dispatched, lastCall, seenTexts, searchCalls, pauses,
                   result, output, exitStatus>>

\* line 230 raises; lines 361-364
ApiRaises ==
    /\ pc = "AwaitingResponse"
    /\ pc' = "Terminated"
    /\ outcome' = "error"
    /\ resolved' = resolved + 1
    /\ UNCHANGED filterVars
    /\ UNCHANGED <<apiKey, messages, turn_count, markdown_result, response,
                   blockIdx, tool_results, fnStop, threads, lastRequest,
                   requestCount, dispatched, lastCall, seenTexts, searchCalls, pauses, result,
                   output, exitStatus>>

\* line 230 returns; lines 240-271
ApiReturns(r) ==
    /\ pc = "AwaitingResponse"
    /\ fnStop' = [fnStop EXCEPT ![turn_count] = TRUE]
    /\ response' = [r EXCEPT !.content = StampIds(r.content, turn_count)]
    /\ IF r.kind = "ok"
       THEN pc' = "InspectingResponse" /\ UNCHANGED outcome
       ELSE pc' = "Terminated" /\ outcome' = "error"
    /\ resolved' = resolved + 1
    /\ UNCHANGED filterVars
    /\ UNCHANGED <<apiKey, messages, turn_count, markdown_result, blockIdx,
                   tool_results, threads, lastRequest, requestCount, dispatched,
                   lastCall, seenTexts, searchCalls, pauses, result, output, exitStatus>>

\* mutant: the assistant turn is appended as soon as the response is inspected
InspectResponse_AppendsAssistant ==
    /\ pc = "InspectingResponse"
    /\ markdown_result' = InspectBlocks(response.content, markdown_result)
    /\ LET next == AfterInspection(response.stop_reason)
       IN  /\ pc' = CASE next = "break" -> "Terminated"
                      [] next = "tools" -> "ExecutingTools"
                      [] OTHER -> "Sending"
           /\ outcome' = IF next = "break" THEN "success" ELSE outcome
           /\ IF next = "tools"
              THEN /\ tool_results' = <<>>
                   /\ blockIdx' = 1
                   /\ messages' = Append(messages, [role |-> "assistant",
                                                    content |-> response.content])
              ELSE UNCHANGED <<tool_results, blockIdx, messages>>
    /\ dispatched' = <<>>
    /\ seenTexts' = seenTexts \o TextsOf(response.content)
    /\ UNCHANGED <<resolved, fa_in, fa_out>>
    /\ UNCHANGED <<apiKey, turn_count, response, fnStop, threads,
                   lastRequest, requestCount, lastCall, searchCalls, pauses,
                   result, output, exitStatus>>

\* lines 274-334
InspectResponse ==
    /\ pc = "InspectingResponse"
    /\ markdown_result' = InspectBlocks(response.content, markdown_result)
    /\ LET next == AfterInspection(response.stop_reason)
       IN  /\ pc' = CASE next = "break" -> "Terminated"
                      [] next = "tools" -> "ExecutingTools"
                      [] OTHER -> "Sending"
           /\ outcome' = IF next = "break" THEN "success" ELSE outcome
           /\ IF next = "tools"
              THEN tool_results' = <<>> /\ blockIdx' = 1
              ELSE UNCHANGED <<tool_results, blockIdx>>
    /\ dispatched' = <<>>
    /\ seenTexts' = seenTexts \o TextsOf(response.content)
    /\ UNCHANGED <<resolved, fa_in, fa_out>>
    /\ UNCHANGED <<apiKey, messages, turn_count, response, fnStop, threads,
                   lastRequest, requestCount, lastCall, searchCalls, pauses,
                   result, output, exitStatus>>

\* lines 336-351: one pass of the for loop; an exception that leaves
\* process_tool_call is caught at line 361
ExecuteBlock ==
    /\ pc = "ExecutingTools"
    /\ blockIdx <= Len(response.content)
    /\ LET block == response.content[blockIdx]
       IN  IF IsLocalToolUse(block)
           THEN \E prov \in ProviderOutcomes :
                  LET call == process_tool_call(block.name, block.input, prov)
                  IN  /\ dispatched' = Append(dispatched, block)
                      /\ lastCall' = [id |-> block.id, name |-> block.name,
                                      input |-> block.input,
                                      provOk |-> (call.searched = 0 \/ prov.ok),
                                      found |-> Len(call.papers), text |-> call.text,
                                      searched |-> call.searched,
                                      slept |-> call.slept, raised |-> call.raised]
                      /\ searchCalls' = searchCalls + call.searched
                      /\ pauses' = pauses + call.slept
                      /\ IF call.raised
                         THEN /\ pc' = "Terminated"
                              /\ outcome' = "error"
                              /\ UNCHANGED <<tool_results, blockIdx>>
                         ELSE /\ tool_results' =
                                     Append(tool_results, ToolResult(block, call.text))
                              /\ blockIdx' = blockIdx + 1
                              /\ UNCHANGED <<pc, outcome>>
           ELSE /\ blockIdx' = blockIdx + 1
                /\ UNCHANGED <<pc, outcome, tool_results, dispatched, lastCall,
                               searchCalls, pauses>>
    /\ UNCHANGED <<resolved, fa_in, fa_out>>
    /\ UNCHANGED <<apiKey, messages, turn_count, markdown_result, response,
                   fnStop, threads, lastRequest, requestCount, seenTexts, result,
                   output, exitStatus>>

\* mutant: the turns are appended before the for loop has finished
AppendTurns_BeforeLoopEnd ==
    /\ pc = "ExecutingTools"
    /\ messages' =
         LET withAssistant ==
                 Append(messages, [role |-> "assistant", content |-> response.content])
         IN  IF tool_results /= <<>>
             THEN Append(withAssistant, [role |-> "user", content |-> tool_results])
             ELSE withAssistant
    /\ pc' = "Sending"
    /\ UNCHANGED <<resolved, fa_in, fa_out>>
    /\ UNCHANGED <<apiKey, turn_count, markdown_result, response, blockIdx,
                   tool_results, fnStop, threads, lastRequest, requestCount,
                   outcome, dispatched, lastCall, seenTexts, searchCalls, pauses, result,
                   output, exitStatus>>

\* mutant: only the tool_use blocks are kept in the assistant turn
AppendTurns_ToolUseBlocksOnly ==
    /\ pc = "ExecutingTools"
    /\ blockIdx > Len(response.content)
    /\ messages' =
         LET withAssistant ==
                 Append(messages, [role |-> "assistant", content |-> dispatched])
         IN  IF tool_results /= <<>>
             THEN Append(withAssistant, [role |-> "user", content |-> tool_results])
             ELSE withAssistant
    /\ pc' = "Sending"
    /\ UNCHANGED <<resolved, fa_in, fa_out>>
    /\ UNCHANGED <<apiKey, turn_count, markdown_result, response, blockIdx,
                   tool_results, fnStop, threads, lastRequest, requestCount,
                   outcome, dispatched, lastCall, seenTexts, searchCalls, pauses, result,
                   output, exitStatus>>

\* AppendTurns with a user turn behind every assistant turn, even with no results
AppendTurns_AlwaysResultsTurn ==
    /\ pc = "ExecutingTools"
    /\ blockIdx > Len(response.content)
    /\ messages' =
         Append(Append(messages, [role |-> "assistant", content |-> response.content]),
                [role |-> "user", content |-> tool_results])
    /\ pc' = "Sending"
    /\ UNCHANGED <<resolved, fa_in, fa_out>>
    /\ UNCHANGED <<apiKey, turn_count, markdown_result, response, blockIdx,
                   tool_results, fnStop, threads, lastRequest, requestCount,
                   outcome, dispatched, lastCall, seenTexts, searchCalls, pauses, result,
                   output, exitStatus>>

\* lines 353-358
AppendTurns ==
    /\ pc = "ExecutingTools"
    /\ blockIdx > Len(response.content)
    /\ messages' =
         LET withAssistant ==
                 Append(messages, [role |-> "assistant", content |-> response.content])
         IN  IF tool_results /= <<>>
             THEN Append(withAssistant, [role |-> "user", content |-> tool_results])
             ELSE withAssistant
    /\ pc' = "Sending"
    /\ UNCHANGED <<resolved, fa_in, fa_out>>
    /\ UNCHANGED <<apiKey, turn_count, markdown_result, response, blockIdx,
                   tool_results, fnStop, threads, lastRequest, requestCount,
                   outcome, dispatched, lastCall, seenTexts, searchCalls, pauses, result,
                   output, exitStatus>>

\* lines 366-368
ReturnResult ==
    /\ pc = "Terminated"
    /\ result' = ReturnValue(markdown_result)
    /\ pc' = "Returned"
    /\ UNCHANGED <<resolved, fa_in, fa_out>>
    /\ UNCHANGED <<apiKey, messages, turn_count, markdown_result, response,
                   blockIdx, tool_results, fnStop, threads, lastRequest,
                   requestCount, outcome, dispatched, lastCall, seenTexts, searchCalls, pauses,
                   output, exitStatus>>

\* main, lines 376-390: the write succeeds, or it raises and main re-raises
WriteOutput(ok) ==
    /\ pc = "Returned"
    /\ pc' = "Exited"
    /\ IF ok
       THEN output' = [written |-> TRUE, text |-> result] /\ exitStatus' = "zero"
       ELSE UNCHANGED output /\ exitStatus' = "nonzero"
    /\ UNCHANGED <<resolved, fa_in, fa_out>>
    /\ UNCHANGED <<apiKey, messages, turn_count, markdown_result, response,
                   blockIdx, tool_results, fnStop, threads, lastRequest,
                   requestCount, outcome, dispatched, lastCall, seenTexts, searchCalls, pauses,
                   result>>

\* line 219: the thread looks progress_indicator up by name, which is the
\* function object of the latest iteration
ThreadCheck(t) ==
    /\ pc /= "Exited"
    /\ threads[t] = "check"
    /\ threads' = [threads EXCEPT ![t] = IF fnStop[turn_count] THEN "exited" ELSE "sleep"]
    /\ UNCHANGED <<resolved, fa_in, fa_out>>
    /\ UNCHANGED <<pc, apiKey, messages, turn_count, markdown_result, response,
                   blockIdx, tool_results, fnStop, lastRequest, requestCount,
                   outcome, dispatched, lastCall, seenTexts, searchCalls, pauses, result,
                   output, exitStatus>>

\* lines 220-223: printed, slept, back to the loop test
ThreadWake(t) ==
    /\ pc /= "Exited"
    /\ threads[t] = "sleep"
    /\ threads' = [threads EXCEPT ![t] = "check"]
    /\ UNCHANGED <<resolved, fa_in, fa_out>>
    /\ UNCHANGED <<pc, apiKey, messages, turn_count, markdown_result, response,
                   blockIdx, tool_results, fnStop, lastRequest, requestCount,
                   outcome, dispatched, lastCall, seenTexts, searchCalls, pauses, result,
                   output, exitStatus>>

Next ==
    \/ StartAnalysis
    \/ SendRequest
    \/ ApiRaises
    \/ \E r \in Responses : ApiReturns(r)
    \/ InspectResponse
    \/ ExecuteBlock
    \/ AppendTurns
    \/ ReturnResult
    \/ \E ok \in BOOLEAN : WriteOutput(ok)
    \/ \E t \in 1..Len(threads) : ThreadCheck(t)
    \/ \E t \in 1..Len(threads) : ThreadWake(t)

Spec == Init /\ [][Next]_vars

\* the steps of the main thread: it runs one statement after the other, and
\* the service call returns or raises within its timeout (line 236)
MainStep ==
    \/ StartAnalysis
    \/ SendRequest
    \/ ApiRaises
    \/ \E r \in Responses : ApiReturns(r)
    \/ InspectResponse
    \/ ExecuteBlock
    \/ AppendTurns
    \/ ReturnResult
    \/ \E ok \in BOOLEAN : WriteOutput(ok)

FairSpec == Spec /\ WF_vars(MainStep)

-----------------------------------------------------------------------------
(* filter_agent_papers called on its own *)

\* longest list of records given to filter_agent_papers
MaxFilterLen == 3

PaperUpper == [title |-> <<"A","G","E","N","T","s">>, abstract |-> <<"x">>]
PaperMulti ==
    [title |-> <<"m","u","l","t","i","-","a","g","e","n","t">>,
     abstract |-> <<"p","l","a","n","n","i","n","g">>]
PaperAcross == [title |-> <<"t","o","o","l">>, abstract |-> <<"u","s","e">>]
PaperOther == [title |-> <<"g","r","a","p","h">>, abstract |-> <<"s","a","t">>]

FilterPool == {PaperUpper, PaperMulti, PaperAcross, PaperOther}

InitFilter ==
    /\ pc = "filter_call"
    /\ fa_in \in {[papers |-> ps, year |-> y] :
                     ps \in SeqsUpTo(FilterPool, MaxFilterLen), y \in {2020, 2021}}
    /\ fa_out = NoSummary
    /\ apiKey = TRUE
    /\ messages = <<>>
    /\ turn_count = 0
    /\ markdown_result = <<>>
    /\ response = NoResponse
    /\ blockIdx = 0
    /\ tool_results = <<>>
    /\ fnStop = <<>>
    /\ threads = <<>>
    /\ lastRequest = <<>>
    /\ requestCount = 0
    /\ outcome = "none"
    /\ dispatched = <<>>
    /\ lastCall = NoCall
    /\ seenTexts = <<>>
    /\ searchCalls = 0
    /\ pauses = 0
    /\ result = <<>>
    /\ output = NoOutput
    /\ exitStatus = "running"
    /\ resolved = 0

\* lines 63-83
CallFilter ==
    /\ pc = "filter_call"
    /\ fa_out' = filter_agent_papers(fa_in.papers, fa_in.year)
    /\ pc' = "filter_done"
    /\ UNCHANGED <<apiKey, messages, turn_count, markdown_result, response,
                   blockIdx, tool_results, fnStop, threads, lastRequest,
                   requestCount, outcome, dispatched, lastCall, seenTexts,
                   searchCalls, pauses, result, output, exitStatus, resolved, fa_in>>

SpecFilter == InitFilter /\ [][CallFilter]_vars

-----------------------------------------------------------------------------
(* Helpers of the properties *)

RECURSIVE SelectType(_, _)
SelectType(content, types) ==
    IF content = <<>> THEN <<>>
    ELSE (IF Head(content).type \in types THEN <<Head(content)>> ELSE <<>>)
         \o SelectType(Tail(content), types)

\* the ids of the tool_use blocks of a content, in block order
ToolUseIds(content) ==
    LET b == SelectType(content, {"tool_use"}) IN [i \in 1..Len(b) |-> b[i].id]

\* the tool_use_id of every entry of a tool-results list, in order
ResultIds(results) == [i \in 1..Len(results) |-> results[i].tool_use_id]

\* the indices of the tool-results user turns of the transcript
ResultTurns == {i \in 2..Len(messages) : messages[i].role = "user"}

\* every tool result of the transcript, as <<turn, position, entry>>
TranscriptResults ==
    UNION {{<<i, j, messages[i].content[j]>> : j \in 1..Len(messages[i].content)} :
           i \in ResultTurns}

\* the transcript ends with the assistant turn of the current response and the
\* results of its tool_use blocks
Answered ==
    LET ids == ToolUseIds(response.content)
        n == Len(messages)
    IN  \/ ids = <<>>
        \/ /\ n >= 3
           /\ messages[n].role = "user"
           /\ messages[n - 1].role = "assistant"
           /\ messages[n - 1].content = response.content
           /\ ResultIds(messages[n].content) = ids

\* r is t without its leading and trailing whitespace
Trimmed(r, t) ==
    /\ \E i \in 1..(Len(t) + 1) : \E j \in 0..Len(t) :
          /\ r = SubSeq(t, i, j)
          /\ \A k \in 1..Len(t) : (k < i \/ k > j) => t[k] \in Whitespace
    /\ r /= <<>> => (r[1] \notin Whitespace /\ r[Len(r)] \notin Whitespace)

QualifyingSeen == {i \in 1..Len(seenTexts) : Qualifies(seenTexts[i])}

\* the last qualifying text block among those inspected
LastQualifyingSeen ==
    seenTexts[CHOOSE i \in QualifyingSeen : \A j \in QualifyingSeen : j <= i]

\* a is an initial segment of b
IsPrefix(a, b) == Len(a) <= Len(b) /\ SubSeq(b, 1, Len(a)) = a

LoopOver == pc \in {"Terminated", "Returned", "Exited"}

HasReturned == pc \in {"Returned", "Exited"}

-----------------------------------------------------------------------------
(* Properties *)

\* C1: whenever a further request is pending after a response was received,
\* whatever its stop reason, every tool_use block of that response has exactly
\* one tool result in the transcript, behind the assistant turn of the response.
C1_ToolUseAnsweredBeforeNextRequest ==
    (pc = "AwaitingResponse" /\ response.kind = "ok") => Answered

\* C2: every tool-results user turn has as many entries as the preceding
\* assistant content has tool_use blocks, and only tool_use blocks are passed
\* to process_tool_call or answered: server_tool_use blocks never are.
C2_ResultCountMatchesToolUse ==
    /\ \A i \in ResultTurns :
          /\ messages[i - 1].role = "assistant"
          /\ Len(messages[i].content) =
                 Len(SelectType(messages[i - 1].content, {"tool_use"}))
    /\ \A k \in 1..Len(dispatched) : dispatched[k].type = "tool_use"
    /\ pc = "ExecutingTools" =>
          \A k \in 1..Len(tool_results) :
              \E b \in 1..Len(response.content) :
                  /\ response.content[b].id = tool_results[k].tool_use_id
                  /\ response.content[b].type = "tool_use"

C2_Witness ==
    \E i \in ResultTurns :
        /\ SelectType(messages[i - 1].content, {"server_tool_use"}) /= <<>>
        /\ Len(messages[i].content) = 2

\* C3: the tool results of a turn carry the ids of the tool_use blocks of the
\* preceding assistant content, in block order, and no id is answered twice
\* anywhere in the transcript; the list under construction carries the ids of
\* the tool_use blocks passed so far.
C3_ResultIdsEchoToolUseIds ==
    /\ \A i \in ResultTurns :
          ResultIds(messages[i].content) = ToolUseIds(messages[i - 1].content)
    /\ \A x, y \in TranscriptResults :
          x[3].tool_use_id = y[3].tool_use_id => (x[1] = y[1] /\ x[2] = y[2])
    /\ pc = "ExecutingTools" =>
          ResultIds(tool_results) =
              ToolUseIds(SubSeq(response.content, 1, blockIdx - 1))

C3_Witness ==
    \E i \in ResultTurns :
        /\ Len(messages[i].content) = 2
        /\ messages[i].content[1].tool_use_id /= messages[i].content[2].tool_use_id
        /\ messages[i - 1].content[3].id = messages[i].content[2].tool_use_id

\* C4: after a response with stop reason end_turn the loop ends in success, no
\* further request is prepared or sent, no tool is dispatched for it, and when
\* the response holds a qualifying text block the value returned is the last
\* such block of it without its leading and trailing whitespace.
C4_EndTurnTerminates ==
    (response.kind = "ok" /\ response.stop_reason = "end_turn") =>
        /\ pc \in {"InspectingResponse", "Terminated", "Returned", "Exited"}
        /\ requestCount = turn_count
        /\ LoopOver => (outcome = "success" /\ dispatched = <<>>)
        /\ HasReturned =>
              LET texts == TextsOf(response.content)
                  q == {i \in 1..Len(texts) : Qualifies(texts[i])}
              IN  q /= {} =>
                      Trimmed(result, texts[CHOOSE i \in q : \A j \in q : j <= i])

C4_Witness ==
    /\ pc = "Exited"
    /\ response.stop_reason = "end_turn"
    /\ turn_count = 2
    /\ ResultTurns /= {}
    /\ response.content[1].text = TxtQ1
    /\ result = <<BQ, BQ, BQ, "1", NEN, RON, BUN>>
    /\ output.text = result

\* C5 as stated: the value returned equals the last qualifying text block seen.
C5_ReturnsLastQualifyingVerbatim ==
    (HasReturned /\ QualifyingSeen /= {}) => result = LastQualifyingSeen

\* C5, amended: the candidate kept is exactly the last qualifying text block
\* seen (an earlier one or a non-qualifying one never stands in its place), and
\* the value returned is that block without its leading and trailing whitespace.
C5_ReturnsLastQualifyingTrimmed ==
    /\ pc /= "InspectingResponse" =>
          markdown_result = IF QualifyingSeen = {} THEN <<>> ELSE LastQualifyingSeen
    /\ (HasReturned /\ QualifyingSeen /= {}) => Trimmed(result, LastQualifyingSeen)

C5_Witness ==
    /\ HasReturned
    /\ Len(seenTexts) = 2
    /\ seenTexts[1] = TxtQ2
    /\ seenTexts[2] = TxtQ1
    /\ result /= TxtQ1
    /\ result = Strip(TxtQ1)

\* C6 as stated: when the loop ended in error the value returned is the
\* candidate captured so far, or the fallback if none was captured.
C6_ErrorReturnsCandidateVerbatim ==
    (outcome = "error" /\ HasReturned) =>
        result = IF QualifyingSeen = {} THEN Fallback ELSE LastQualifyingSeen

\* C6, amended: when the loop ended in error no further request is prepared or
\* sent, and the value returned is the candidate captured so far without its
\* leading and trailing whitespace, or the fallback if none was captured.
C6_ErrorReturnsCandidateTrimmed ==
    outcome = "error" =>
        /\ LoopOver
        /\ requestCount = turn_count
        /\ HasReturned =>
              IF QualifyingSeen = {} THEN result = Fallback
              ELSE Trimmed(result, LastQualifyingSeen)

C6_Witness ==
    /\ outcome = "error"
    /\ HasReturned
    /\ turn_count = 2
    /\ seenTexts = <<TxtQ1>>
    /\ result = Strip(TxtQ1)
    /\ result /= TxtQ1

C6_WitnessFallback ==
    /\ outcome = "error"
    /\ HasReturned
    /\ response.kind = "nostop"
    /\ result = Fallback

\* C7: when the loop ended in error the process exits with a non-zero status.
C7_FatalExitsNonZero ==
    (pc = "Exited" /\ outcome = "error") => exitStatus = "nonzero"

\* C8: once the request of iteration n has resolved, by a response or by a
\* failure, the function object of iteration n carries the stop attribute.
C8_ResolvedRequestSignalsStop ==
    \A n \in 1..Len(fnStop) :
        (n < turn_count \/ pc /= "AwaitingResponse") => fnStop[n]

\* C9: when the provider call of a search fails, search_arxiv_papers returns
\* the empty list, process_tool_call returns the summary of the requested year
\* with both counts 0, and that text is the tool result recorded for the block.
C9_ProviderFailureYieldsZeroSummary ==
    (lastCall.name = SearchTool /\ ~lastCall.provOk) =>
        /\ lastCall.found = 0
        /\ lastCall.text =
               << <<"year", Get(lastCall.input, "year", PyNone)>>,
                  <<"total_papers", 0>>, <<"agent_papers", 0>> >>
        /\ \/ \E k \in 1..Len(tool_results) :
                 /\ tool_results[k].tool_use_id = lastCall.id
                 /\ tool_results[k].content = lastCall.text
           \/ \E x \in TranscriptResults :
                 /\ x[3].tool_use_id = lastCall.id
                 /\ x[3].content = lastCall.text

C9_Witness ==
    /\ lastCall.name = SearchTool
    /\ ~lastCall.provOk
    /\ pc = "AwaitingResponse"
    /\ turn_count = 2
    /\ \E x \in TranscriptResults :
          /\ x[3].tool_use_id = lastCall.id
          /\ x[3].content = << <<"year", 2020>>, <<"total_papers", 0>>,
                               <<"agent_papers", 0>> >>
    /\ lastRequest = messages

\* C10: every call of search_arxiv_papers performs the pause.
C10_EverySearchPauses ==
    pauses = searchCalls

\* C11: a call of process_tool_call with a name other than
\* search_and_filter_papers does not raise, performs no search and no pause,
\* returns "Unknown tool: <name>", and that text is the tool result recorded
\* for the requesting block.
C11_UnknownToolSentinel ==
    (lastCall.name /= "" /\ lastCall.name /= SearchTool) =>
        /\ ~lastCall.raised
        /\ lastCall.searched = 0
        /\ lastCall.slept = 0
        /\ lastCall.text = <<"Unknown tool: ", lastCall.name>>
        /\ \/ \E k \in 1..Len(tool_results) :
                 /\ tool_results[k].tool_use_id = lastCall.id
                 /\ tool_results[k].content = lastCall.text
           \/ \E x \in TranscriptResults :
                 /\ x[3].tool_use_id = lastCall.id
                 /\ x[3].content = lastCall.text

C11_Witness ==
    /\ lastCall.name = "bogus_tool"
    /\ pc = "AwaitingResponse"
    /\ turn_count = 2
    /\ lastRequest = messages
    /\ \E x \in TranscriptResults :
          /\ x[3].tool_use_id = lastCall.id
          /\ x[3].content = <<"Unknown tool: ", "bogus_tool">>

\* C12: no step removes, reorders or modifies a turn of the transcript; the
\* transcript carried by a request extends the one carried by the request
\* before it; and the turn appended first for a response is the assistant turn
\* holding the content of the response unmodified.
C12_TranscriptAppendOnly ==
    [][ /\ IsPrefix(messages, messages')
        /\ IsPrefix(lastRequest, lastRequest')
        /\ (Len(messages) >= 1 /\ Len(messages') > Len(messages)) =>
              messages'[Len(messages) + 1] =
                  [role |-> "assistant", content |-> response.content] ]_vars

C12_Witness ==
    /\ pc = "AwaitingResponse"
    /\ requestCount = 2
    /\ Len(lastRequest) = 3
    /\ Len(lastRequest[2].content) = 3
    /\ lastRequest[2].content[2].type = "server_tool_use"

\* C13: without the credential no request is sent to the AI service, the
\* literature provider is never searched, output.md is not written, and the
\* process ends by the re-raised configuration error with a non-zero status.
C13_MissingCredentialIsFatal ==
    ~apiKey =>
        /\ pc \in {"main", "Exited"}
        /\ requestCount = 0
        /\ searchCalls = 0
        /\ ~output.written
        /\ pc = "Exited" => exitStatus = "nonzero"

C13_Witness ==
    /\ ~apiKey
    /\ pc = "Exited"
    /\ exitStatus = "nonzero"
    /\ requestCount = 0
    /\ ~output.written

EndTurnReceived ==
    pc = "InspectingResponse" /\ response.kind = "ok" /\ response.stop_reason = "end_turn"

\* the loop is about to start an iteration beyond those the model follows
AtTurnBound == pc = "Sending" /\ turn_count = MaxTurns

\* C14: when every request resolves, a response with stop reason end_turn or a
\* failed request leads to the end of the loop, and no iteration hangs: every
\* run ends the loop, ends the process or comes to start one more iteration.
\* The loop ends only by an error or by end_turn: however many tool_use
\* responses it has handled, it goes on to the next request.
C14_LoopEndsOnlyByEndTurnOrError ==
    /\ (EndTurnReceived \/ outcome = "error") ~> LoopOver
    /\ <>(LoopOver \/ pc = "Exited" \/ AtTurnBound)
    /\ [][(~LoopOver /\ LoopOver' /\ pc' /= "Exited") =>
              \/ outcome' = "error"
              \/ (outcome' = "success" /\ response.stop_reason = "end_turn")]_vars
    /\ [][(pc = "ExecutingTools" /\ ~lastCall'.raised) => ~LoopOver']_vars

C14_Witness ==
    /\ pc = "Terminated"
    /\ outcome = "success"
    /\ turn_count = MaxTurns
    /\ Len(messages) = 2 * MaxTurns - 1

\* the loop has handled a tool_use response in every iteration and goes on
C14_WitnessStillRunning ==
    /\ AtTurnBound
    /\ outcome = "none"
    /\ Len(messages) = 2 * MaxTurns + 1

\* C15: filter_agent_papers returns the year it was given, total_papers equal
\* to the length of the list, and agent_papers equal to the number of records
\* that match at least one keyword, each counted once, so that
\* 0 <= agent_papers <= total_papers.
C15_FilterCounts ==
    pc = "filter_done" =>
        /\ fa_out.year = fa_in.year
        /\ fa_out.total_papers = Len(fa_in.papers)
        /\ fa_out.agent_papers =
               Cardinality({i \in 1..Len(fa_in.papers) : PaperMatches(fa_in.papers[i])})
        /\ 0 <= fa_out.agent_papers
        /\ fa_out.agent_papers <= fa_out.total_papers

C15_Witness ==
    /\ pc = "filter_done"
    /\ fa_in.papers = <<PaperMulti, PaperOther, PaperUpper>>
    /\ fa_out.total_papers = 3
    /\ fa_out.agent_papers = 2

\* the texts of the current response are the last ones inspected
InspectedFully ==
    LET t == TextsOf(response.content)
    IN  /\ Len(seenTexts) >= Len(t)
        /\ SubSeq(seenTexts, Len(seenTexts) - Len(t) + 1, Len(seenTexts)) = t

\* C16: at most one request is outstanding, and one is outstanding exactly
\* while the main thread waits for it; while a request that follows a response
\* is outstanding, that response has been inspected in full, the dispatch loop
\* over it has finished, and every block that was dispatched has returned a
\* result that is in the last turn of the transcript.
C16_OneRequestAtATime ==
    /\ requestCount - resolved \in {0, 1}
    /\ (requestCount - resolved = 1) <=> (pc = "AwaitingResponse")
    /\ (pc = "AwaitingResponse" /\ response.kind = "ok") =>
          /\ InspectedFully
          /\ lastRequest = messages
          /\ response.stop_reason = "tool_use" =>
                /\ blockIdx = Len(response.content) + 1
                /\ Len(tool_results) = Len(dispatched)
                /\ \A k \in 1..Len(dispatched) :
                      /\ messages[Len(messages)].role = "user"
                      /\ Len(messages[Len(messages)].content) = Len(dispatched)
                      /\ messages[Len(messages)].content[k].tool_use_id = dispatched[k].id

C16_Witness ==
    /\ pc = "AwaitingResponse"
    /\ requestCount = 2
    /\ resolved = 1
    /\ response.stop_reason = "tool_use"
    /\ Len(dispatched) = 2
    /\ Len(lastRequest) = 3

\* C17: whenever a request is sent after a response was inspected, the
\* transcript it carries holds, behind the transcript of the previous request,
\* at least the assistant turn of that response.
C17_ConsecutiveRequestsDiffer ==
    [][(requestCount >= 1 /\ requestCount' = requestCount + 1) =>
          /\ lastRequest' /= lastRequest
          /\ Len(lastRequest') > Len(lastRequest)
          /\ lastRequest'[Len(lastRequest) + 1] =
                 [role |-> "assistant", content |-> response.content]]_vars

\* the transcript starts with the initial user instruction
StartsWithInstruction(t) ==
    t /= <<>> /\ t[1] = [role |-> "user", content |-> InitialPrompt]

\* the assistant turn at index i holds at least one local tool_use block
HasLocalToolUse(t, i) == SelectType(t[i].content, {"tool_use"}) /= <<>>

\* C18 as stated: every request carries a transcript that starts with the
\* initial user instruction, strictly alternates user and assistant turns and
\* ends with a user turn.
C18_RequestAlternatesAndEndsWithUser ==
    requestCount >= 1 =>
        /\ StartsWithInstruction(lastRequest)
        /\ \A i \in 1..Len(lastRequest) :
               lastRequest[i].role = (IF i % 2 = 1 THEN "user" ELSE "assistant")
        /\ lastRequest[Len(lastRequest)].role = "user"

\* C18 amended: every request carries a transcript that starts with the initial
\* user instruction; every later user turn directly follows an assistant turn;
\* an assistant turn is directly followed by a user turn exactly when its
\* content holds a local tool_use block, so the transcript ends with an
\* assistant turn after a tool_use response without local tool_use blocks.
C18_UserTurnFollowsLocalToolUseOnly ==
    requestCount >= 1 =>
        /\ StartsWithInstruction(lastRequest)
        /\ \A i \in 2..Len(lastRequest) :
               /\ lastRequest[i].role = "user" => lastRequest[i - 1].role = "assistant"
               /\ lastRequest[i].role = "assistant" =>
                      (HasLocalToolUse(lastRequest, i) <=>
                           (i < Len(lastRequest) /\ lastRequest[i + 1].role = "user"))

\* a request was sent after a tool_use response holding only server blocks
C18_Witness ==
    /\ requestCount = 2
    /\ Len(lastRequest) = 2
    /\ lastRequest[2].role = "assistant"
    /\ lastRequest[2].content = <<StampIds(<<ServerToolUse, ServerToolResult>>, 1)[1],
                                  StampIds(<<ServerToolUse, ServerToolResult>>, 1)[2]>>

\* a request was sent after a tool_use response with a local tool_use block
C18_WitnessAnswered ==
    /\ requestCount = 2
    /\ Len(lastRequest) = 3
    /\ lastRequest[2].role = "assistant"
    /\ lastRequest[3].role = "user"

\* C19: the thread started for one request observes its stop signal and exits:
\* once the stop flag of its own iteration's function is set, a thread that
\* tests its loop condition leaves the loop, so it never goes on looping while
\* a later request is pending.
C19_ThreadObservesItsStopSignal ==
    [][\A t \in 1..Len(threads) :
          (fnStop[t] /\ threads[t] = "check" /\ threads'[t] /= threads[t]) =>
              threads'[t] = "exited"]_vars

\* C20: from the moment a request is sent until every block of its response
\* has been passed by the dispatch loop the transcript is exactly the one that
\* was sent; if the run ends in error (the call, the inspection or a tool
\* dispatch raised) the loop is over and the transcript is still the one sent,
\* with no assistant turn and none of the results gathered so far; and when the
\* transcript has grown, the whole response was dispatched, one result per
\* tool_use block.
C20_RaiseLeavesTranscriptAsSent ==
    requestCount >= 1 =>
        /\ pc \in {"AwaitingResponse", "InspectingResponse", "ExecutingTools"} =>
               messages = lastRequest
        /\ outcome = "error" => (LoopOver /\ messages = lastRequest)
        /\ messages /= lastRequest =>
               /\ pc = "Sending"
               /\ blockIdx > Len(response.content)
               /\ Len(tool_results) = Len(SelectType(response.content, {"tool_use"}))

\* a tool dispatch raised after an earlier block of the same response had
\* produced a result
C20_Witness ==
    /\ pc = "Terminated"
    /\ outcome = "error"
    /\ lastCall.raised
    /\ Len(tool_results) = 1
    /\ messages = lastRequest

\* the response handling raised before the blocks were inspected
C20_WitnessInspection ==
    /\ pc = "Terminated"
    /\ outcome = "error"
    /\ response.kind = "nomodel"
    /\ messages = lastRequest

====
